---- MODULE Spec2Model ----
(***************************************************************************)
(* A model of apikit: the URL resolver (specs.get_url), the specification  *)
(* resolver (specs.HTTPGatewaySpec.__init__), the default adapters and the *)
(* default request gateway (default.py) and the session provider           *)
(* (session.DefaultHttpSession).                                           *)
(*                                                                         *)
(* Python values are tagged records [k |-> kind, v |-> payload]; strings   *)
(* that the URL resolver inspects are sequences of one-character strings.  *)
(***************************************************************************)
EXTENDS Integers, Sequences, FiniteSets, TLC

VARIABLES
    u_base,       \* get_url: the base_url argument
    u_path,       \* get_url: the url argument
    u_out,        \* get_url: the outcome of the call, or NotCalled
    root,         \* the library class the declared spec classes derive from
    classes,      \* the declared spec classes, each a subclass of the one before
    app_context,  \* flask.current_app as from_app_context_or_new finds it
    context,      \* the attributes setdefault has stored on the app context
    spec,         \* the last HTTPGatewaySpec(...) call and its outcome
    gateway,      \* a DefaultHTTPRequestGateway built by its own constructor
    call,         \* the invocation of that gateway that is under way
    n_calls,      \* invocations started so far
    n_prepared,   \* invocations whose prepare has returned a request
    n_sent,       \* calls of session.send so far
    acquired,     \* the calls of from_context made on one context, in order
    owner,        \* the class the spec is an attribute of, or NoOwner
    access,       \* the last read of that attribute and how many there were
    n_bound_calls,\* invocations of the gateway read from the attribute
    threads       \* the invocations concurrent threads make of one gateway

url_vars == <<u_base, u_path, u_out>>

decl_vars == <<root, classes>>

res_vars == <<app_context, context, spec>>

call_vars == <<gateway, call, n_calls, n_prepared, n_sent>>

sess_vars == <<acquired>>

own_vars == <<owner, access, n_bound_calls>>

conc_vars == <<threads>>

vars ==
    <<u_base, u_path, u_out, root, classes, app_context, context, spec,
      gateway, call, n_calls, n_prepared, n_sent, acquired,
      owner, access, n_bound_calls, threads>>

-----------------------------------------------------------------------------
(* Bounds *)

\* longest string handed to get_url
MaxLen == 5

\* most spec classes declared below the library class
MaxDepth == 2

\* most class attributes and call-time arguments written in one program
MaxDefs == 3

\* most threads that invoke one gateway at the same time
MaxThreads == 2

\* most invocations of one gateway, one after the other
MaxCalls == 2

\* most session acquisitions on one context
MaxAcquisitions == 3

\* most reads of the attribute an owning class keeps its spec in
MaxAccesses == 2

-----------------------------------------------------------------------------
(* Strings and urllib.parse.urlparse, as far as get_url reads its result *)

\* the characters of the modelled strings: a letter, the scheme delimiter,
\* the path delimiter and the opening bracket of an IPv6 host
Chars == {"a", ":", "/", "["}

RECURSIVE StringsOfLen(_)
StringsOfLen(n) ==
    IF n = 0 THEN {<<>>}
    ELSE {Append(s, c) : s \in StringsOfLen(n - 1), c \in Chars}

Strings == UNION {StringsOfLen(n) : n \in 0..MaxLen}

\* str.isalpha() on the first character of a candidate scheme
IsAlpha(c) == c = "a"

\* urllib.parse.scheme_chars: letters, digits, "+", "-", "."
IsSchemeChar(c) == c = "a"

\* s.find(c), 1-based; 0 when c does not occur
Find(s, c, from) ==
    LET hits == {i \in from..Len(s) : s[i] = c}
    IN  IF hits = {} THEN 0 ELSE CHOOSE i \in hits : \A j \in hits : i <= j

\* urlsplit: a scheme is split off when the text before the first ":" is
\* non-empty, starts with a letter and holds scheme characters only
SchemeEnd(s) ==
    LET i == Find(s, ":", 1)
    IN  IF i > 1 /\ IsAlpha(s[1]) /\ \A j \in 1..(i - 1) : IsSchemeChar(s[j])
        THEN i ELSE 0

UrlScheme(s) == SubSeq(s, 1, SchemeEnd(s) - 1)

AfterScheme(s) == SubSeq(s, SchemeEnd(s) + 1, Len(s))

\* urlsplit: the netloc is what follows a leading "//" up to the next "/"
UrlNetloc(s) ==
    LET r == AfterScheme(s)
    IN  IF Len(r) >= 2 /\ r[1] = "/" /\ r[2] = "/"
        THEN LET d == Find(r, "/", 3)
             IN  SubSeq(r, 3, IF d = 0 THEN Len(r) ELSE d - 1)
        ELSE <<>>

\* urlsplit raises ValueError("Invalid IPv6 URL") when the netloc holds "["
\* without "]" (or the reverse)
UrlParseRaises(s) == \E i \in 1..Len(UrlNetloc(s)) : UrlNetloc(s)[i] = "["

\* parsed.scheme and parsed.netloc, as a truth value
HasSchemeAndNetloc(s) == UrlScheme(s) # <<>> /\ UrlNetloc(s) # <<>>

-----------------------------------------------------------------------------
(* specs.get_url *)

NotCalled == [status |-> "not_called", value |-> <<>>]

Raised(exc) == [status |-> exc, value |-> <<>>]

Returned(val) == [status |-> "returned", value |-> val]

get_url(b, p) ==
    IF UrlParseRaises(p) \/ UrlParseRaises(b)
    THEN Raised("ValueError")
    ELSE IF ~(HasSchemeAndNetloc(p) \/ HasSchemeAndNetloc(b))
    THEN Raised("ValueError")
    ELSE IF ~HasSchemeAndNetloc(p) THEN Returned(b \o p) ELSE Returned(p)

-----------------------------------------------------------------------------
(* Python values *)

None == [k |-> "None", v |-> 0]

Str(s) == [k |-> "str", v |-> s]

Num(n) == [k |-> "int", v |-> n]

\* a member of protocols.HTTPMethod
Method(m) == [k |-> "HTTPMethod", v |-> m]

\* a class object
Type(name) == [k |-> "type", v |-> name]

\* an instance; id tells two instances of one class apart
Object(cls, id, attrs) == [k |-> "object", v |-> [cls |-> cls, id |-> id, attrs |-> attrs]]

\* no attribute of that name in a class body, or no such keyword argument
Absent == [k |-> "absent", v |-> 0]

\* bool(x)
Truthy(x) ==
    CASE x.k = "None" -> FALSE
      [] x.k = "str"  -> x.v # <<>>
      [] x.k = "int"  -> x.v # 0
      [] OTHER        -> TRUE

\* x or y
Or(x, y) == IF Truthy(x) THEN x ELSE y

\* inspect.isclass
isclass(x) == x.k = "type"

HTTPMethod == {"GET", "POST", "PUT", "PATCH", "OPTIONS"}

-----------------------------------------------------------------------------
(* Spec classes: the library's and the declared ones *)

Fields ==
    {"url", "method", "base_url", "timeout", "request_model", "response_model",
     "request_adapter", "response_adapter", "session", "authorizer", "gateway"}

EmptyBody == [f \in Fields |-> Absent]

\* the class-level attributes of HTTPGatewaySpec
HTTPGatewaySpecBody ==
    [f \in Fields |->
        CASE f = "base_url"         -> Str(<<>>)
          [] f = "method"           -> None
          [] f = "timeout"          -> None
          [] f = "session"          -> Type("DefaultHttpSession")
          [] f = "authorizer"       -> None
          [] f = "request_adapter"  -> Type("DefaultHTTPRequestAdapter")
          [] f = "response_adapter" -> Type("DefaultHTTPResponseAdapter")
          [] f = "request_model"    -> None
          [] f = "response_model"   -> None
          [] f = "gateway"          -> Type("DefaultHTTPRequestGateway")
          [] OTHER                  -> Absent]

HTTPGatewayGETSpecBody == [EmptyBody EXCEPT !["method"] = Method("GET")]

HTTPGatewayPOSTSpecBody == [EmptyBody EXCEPT !["method"] = Method("POST")]

Roots == {"HTTPGatewaySpec", "HTTPGatewayGETSpec", "HTTPGatewayPOSTSpec"}

\* what the library class rt writes itself, next to what it inherits from
\* HTTPGatewaySpec
RootBody(rt) ==
    CASE rt = "HTTPGatewayGETSpec"  -> HTTPGatewayGETSpecBody
      [] rt = "HTTPGatewayPOSTSpec" -> HTTPGatewayPOSTSpecBody
      [] OTHER                      -> EmptyBody

\* the values a declaration or a call writes for each field
RelUrl == <<"/", "a">>

AbsUrl == <<"a", ":", "/", "/", "a">>

AbsUrlSlash == <<"a", ":", "/", "/", "a", "/">>

\* the name of a verb that is no member of HTTPMethod, written as a string
Delete == <<"D", "E", "L", "E", "T", "E">>

UserRequestAdapter == Object("TestHTTPRequestAdapter", <<0, "request_adapter">>, None)

UserResponseAdapter == Object("TestHTTPResponseAdapter", <<0, "response_adapter">>, None)

Authorizer(token) == Object("StaticTokenSessionAuthorizer", <<0, token>>, Str(token))

Dom(f) ==
    CASE f = "url"              -> {Str(<<>>), Str(RelUrl), Str(AbsUrl)}
      [] f = "method"           -> {Method("GET"), Method("POST"), Str(Delete)}
      [] f = "base_url"         -> {Str(<<>>), Str(AbsUrl), Str(AbsUrlSlash)}
      [] f = "timeout"          -> {Num(0), Num(5), Num(60)}
      [] f = "request_model"    -> {Type("BMUser"), Type("DCUser")}
      [] f = "response_model"   -> {Type("BMUser"), Type("DCUser")}
      [] f = "request_adapter"  -> {Type("TestHTTPRequestAdapter"), UserRequestAdapter}
      [] f = "response_adapter" -> {Type("TestHTTPResponseAdapter"), UserResponseAdapter}
      [] f = "session"          -> {Type("TestHTTPSession"), Type("DefaultCachedHttpSession")}
      [] f = "authorizer"       -> {Authorizer("t1"), Authorizer("t2")}
      [] f = "gateway"          -> {Type("TestHTTPGateway"), Type("TimeoutHTTPGateway")}

NumDefs(body) == Cardinality({f \in Fields : body[f] # Absent})

\* the bodies that write one field more than a body of bs, or that are in bs
OneMoreDef(bs) ==
    bs \cup UNION {{[b EXCEPT ![f] = x] : b \in bs, x \in Dom(f)} : f \in Fields}

RECURSIVE BodiesUpTo(_)
BodiesUpTo(n) ==
    IF n = 0 THEN <<{EmptyBody}>>
    ELSE LET smaller == BodiesUpTo(n - 1)
         IN  Append(smaller, OneMoreDef(smaller[n]))

\* Bodies[n + 1]: the class bodies and keyword-argument sets that write at
\* most n fields, for n up to MaxDefs
Bodies == BodiesUpTo(MaxDefs)

RECURSIVE SumDefs(_)
SumDefs(cs) == IF cs = <<>> THEN 0 ELSE NumDefs(Head(cs)) + SumDefs(Tail(cs))

\* type(self).__mro__ for an instance of the last declared class (of the
\* library class when none is declared), as class bodies, nearest first
Mro(rt, cs) ==
    [i \in 1..(Len(cs) + 2) |->
        IF i <= Len(cs) THEN cs[Len(cs) - i + 1]
        ELSE IF i = Len(cs) + 1 THEN RootBody(rt)
        ELSE HTTPGatewaySpecBody]

\* the attribute looked up from the least derived class on
getattrBaseFirst(mro, f, default) ==
    LET has == {i \in 1..Len(mro) : mro[i][f] # Absent}
    IN  IF has = {} THEN default
        ELSE mro[CHOOSE i \in has : \A j \in has : j <= i][f]

\* getattr(cls, f, default): the first class of the MRO that has f
getattr(mro, f, default) ==
    LET has == {i \in 1..Len(mro) : mro[i][f] # Absent}
    IN  IF has = {} THEN default
        ELSE mro[CHOOSE i \in has : \A j \in has : i <= j][f]

-----------------------------------------------------------------------------
(* session.DefaultHttpSession and StaticTokenSessionAuthorizer *)

\* DefaultHttpSession.__init__: read_timeout or 60
DefaultReadTimeout == 60

\* StaticTokenSessionAuthorizer.authorize: session.auth = BearerTokenAuth(token)
authorize(authorizer, session) ==
    [session EXCEPT !.auth = authorizer.v.attrs]

\* cls(read_timeout=read_timeout): a new session, not authorized
NewSession(cls, read_timeout, id) ==
    [cls |-> cls.v, id |-> id, auth |-> None,
     read_timeout |-> Or(read_timeout, Num(DefaultReadTimeout))]

\* DefaultHttpSession._initialize
_initialize(cls, authorizer, read_timeout, id) ==
    LET rt == Or(read_timeout, Num(DefaultReadTimeout))
    IN  IF authorizer # None
        THEN authorize(authorizer, NewSession(cls, rt, id))
        ELSE NewSession(cls, rt, id)

\* str(salt) for a read_timeout: "None", or the decimal digits of an int
str(salt) == IF salt = None THEN "None" ELSE ToString(salt.v)

\* a context key that leaves the salt out
_context_keyWithoutSalt(cls, salt) == cls.v

\* DefaultHttpSession._context_key: cls.__name__ + str(salt)
_context_key(cls, salt) == cls.v \o str(salt)

\* context.setdefault(key, value) on a context that is a mapping
setdefault(ctx, key, value) ==
    IF \E e \in ctx : e[1] = key
    THEN [value |-> (CHOOSE e \in ctx : e[1] = key)[2], context |-> ctx]
    ELSE [value |-> value, context |-> ctx \cup {<<key, value>>}]

\* a from_context whose key also tells the authorizers' tokens apart
from_contextKeyedByToken(cls, ctx, authorizer, read_timeout, id) ==
    setdefault(ctx,
               IF authorizer = None THEN _context_key(cls, read_timeout)
               ELSE _context_key(cls, read_timeout) \o authorizer.v.attrs.v,
               _initialize(cls, authorizer, read_timeout, id))

\* DefaultHttpSession.from_context: the new session is built before
\* setdefault is called, whether or not the key is already there
from_context(cls, ctx, authorizer, read_timeout, id) ==
    setdefault(ctx, _context_key(cls, read_timeout),
               _initialize(cls, authorizer, read_timeout, id))

\* DefaultHttpSession.from_app_context_or_new(authorizer=...): any failure
\* to reach a usable flask app context falls back to a new session
from_app_context_or_new(cls, appctx, ctx, authorizer, id) ==
    IF appctx = "mapping"
    THEN from_context(cls, ctx, authorizer, None, id)
    ELSE [value |-> _initialize(cls, authorizer, None, id), context |-> ctx]

-----------------------------------------------------------------------------
(* Adapter and gateway construction, as HTTPGatewaySpec.__init__ calls it *)

\* DefaultHTTPRequestAdapter.__init__ (and its subclasses):
\* self.adapter = TypeAdapter(model)
NewRequestAdapter(cls, model, id) == Object(cls.v, id, model)

\* DefaultHTTPResponseAdapter.__init__ (and its subclasses):
\* self.adapter = TypeAdapter(model) if model else None
NewResponseAdapter(cls, model, id) ==
    Object(cls.v, id, IF Truthy(model) THEN model ELSE None)

\* the gateway classes whose __init__ is DefaultHTTPRequestGateway.__init__,
\* which has no timeout parameter
DefaultInitGateways == {"DefaultHTTPRequestGateway", "TestHTTPGateway"}

NoGateway == [k |-> "no_gateway", v |-> 0]

NoCall == [k |-> "no_call", v |-> 0]

\* gateway_class(session=, url=, method=, timeout=, request_adapter=,
\* response_adapter=): a class with DefaultHTTPRequestGateway.__init__
\* rejects the timeout keyword; a class with the protocol's __init__ keeps
\* what it is given
NewGateway(cls, args, id) ==
    IF cls.v \in DefaultInitGateways
    THEN [status |-> "TypeError", gateway |-> NoGateway]
    ELSE [status |-> "ok", gateway |-> Object(cls.v, id, args)]

-----------------------------------------------------------------------------
(* specs.HTTPGatewaySpec.__init__ *)

\* the default of each keyword parameter
ParamDefault(f) == IF f = "base_url" THEN Str(<<>>) ELSE None

\* the value a call binds to parameter f
Arg(kw, f) == IF kw[f] = Absent THEN ParamDefault(f) ELSE kw[f]

\* the third operand of getattr for each field
GetattrDefault(f) ==
    CASE f = "base_url"         -> Str(<<>>)
      [] f = "request_adapter"  -> Type("DefaultHTTPRequestAdapter")
      [] f = "response_adapter" -> Type("DefaultHTTPResponseAdapter")
      [] f = "session"          -> Type("DefaultHttpSession")
      [] f = "gateway"          -> Type("DefaultHTTPRequestGateway")
      [] OTHER                  -> None

\* the class attribute taken before the call-time argument
MergeFieldClassFirst(kw, mro, f) ==
    LET merged == Or(getattr(mro, f, GetattrDefault(f)), Arg(kw, f))
    IN  IF f = "base_url" THEN Or(merged, Str(<<>>)) ELSE merged

\* a merge that takes every call-time argument other than None
MergeFieldUnlessNone(kw, mro, f) ==
    LET merged == IF Arg(kw, f) # None THEN Arg(kw, f)
                  ELSE getattr(mro, f, GetattrDefault(f))
    IN  IF f = "base_url" THEN Or(merged, Str(<<>>)) ELSE merged

\* _f = f or getattr(cls, "f", default)   (base_url: ... or "")
MergeField(kw, mro, f) ==
    LET merged == Or(Arg(kw, f), getattr(mro, f, GetattrDefault(f)))
    IN  IF f = "base_url" THEN Or(merged, Str(<<>>)) ELSE merged

\* lines 171-185: every field merged, one line of code each
Merged(kw, mro) ==
    [url              |-> MergeField(kw, mro, "url"),
     method           |-> MergeField(kw, mro, "method"),
     base_url         |-> MergeField(kw, mro, "base_url"),
     timeout          |-> MergeField(kw, mro, "timeout"),
     request_adapter  |-> MergeField(kw, mro, "request_adapter"),
     response_adapter |-> MergeField(kw, mro, "response_adapter"),
     request_model    |-> MergeField(kw, mro, "request_model"),
     response_model   |-> MergeField(kw, mro, "response_model"),
     session          |-> MergeField(kw, mro, "session"),
     authorizer       |-> MergeField(kw, mro, "authorizer"),
     gateway          |-> MergeField(kw, mro, "gateway")]

\* what __init__ leaves behind when it raises before building anything
Failed(exc, ctx) ==
    [spec    |-> [status |-> exc, kwargs |-> EmptyBody, provider |-> NoCall,
                  created |-> <<>>, ctor |-> NoCall, gateway |-> NoGateway],
     context |-> ctx]

\* an adapter instantiated whatever the reference is
InitializedRequestAdapterAlwaysNew(ref, model, id) ==
    NewRequestAdapter(IF isclass(ref) THEN ref ELSE Type(ref.v.cls), model, id)

\* _initialized_request_adapter: a class is instantiated with the merged
\* model, anything else is passed on as it is
InitializedRequestAdapter(ref, model, id) ==
    IF isclass(ref) THEN NewRequestAdapter(ref, model, id) ELSE ref

\* _initialized_response_adapter
InitializedResponseAdapter(ref, model, id) ==
    IF isclass(ref) THEN NewResponseAdapter(ref, model, id) ELSE ref

\* the adapter instantiations of one __init__, in order
Instantiations(m, n) ==
    (IF isclass(m["request_adapter"])
     THEN <<[cls |-> m["request_adapter"], model |-> m["request_model"],
             id |-> <<n, "request_adapter">>]>>
     ELSE <<>>)
    \o
    (IF isclass(m["response_adapter"])
     THEN <<[cls |-> m["response_adapter"], model |-> m["response_model"],
             id |-> <<n, "response_adapter">>]>>
     ELSE <<>>)

\* the spec object once the gateway class has been called
BoundAs(m, args, ctx, made, n) ==
    [spec    |-> [status   |-> made.status,
                  kwargs   |-> EmptyBody,
                  provider |-> [k |-> "call",
                                v |-> [cls |-> m["session"],
                                       authorizer |-> m["authorizer"]]],
                  created  |-> Instantiations(m, n),
                  ctor     |-> [k |-> "call",
                                v |-> [cls |-> m["gateway"], args |-> args]],
                  gateway  |-> made.gateway],
     context |-> ctx]

\* lines 191-212: acquire the session, bind the adapters, construct the
\* gateway and keep it as self._gateway
BindGateway(m, full_url, got, n) ==
    LET args == [session          |-> got.value,
                 url              |-> full_url,
                 method           |-> m["method"],
                 timeout          |-> m["timeout"],
                 request_adapter  |-> InitializedRequestAdapter(
                                          m["request_adapter"], m["request_model"],
                                          <<n, "request_adapter">>),
                 response_adapter |-> InitializedResponseAdapter(
                                          m["response_adapter"], m["response_model"],
                                          <<n, "response_adapter">>)]
    IN  BoundAs(m, args, got.context, NewGateway(m["gateway"], args, <<n, "gateway">>), n)

\* an __init__ that acquires the session before it validates
ValidatedSessionFirst(m, full, appctx, ctx, n) ==
    LET got == from_app_context_or_new(
                   m["session"], appctx, ctx, m["authorizer"], <<n, "session">>)
    IN  IF ~Truthy(m["url"]) THEN Failed("AssertionError", got.context)
        ELSE IF ~Truthy(m["method"]) THEN Failed("AssertionError", got.context)
        ELSE IF full.status # "returned" THEN Failed(full.status, got.context)
        ELSE BindGateway(m, full.value, got, n)

\* lines 187-190: the two assertions, then the URL resolver
Validated(m, full, appctx, ctx, n) ==
    IF ~Truthy(m["url"]) THEN Failed("AssertionError", ctx)
    ELSE IF ~Truthy(m["method"]) THEN Failed("AssertionError", ctx)
    ELSE IF full.status # "returned" THEN Failed(full.status, ctx)
    ELSE BindGateway(m, full.value,
                     from_app_context_or_new(
                         m["session"], appctx, ctx, m["authorizer"], <<n, "session">>),
                     n)

\* get_url(_base_url, _url); not reached when an assertion fails
FullUrl(m) ==
    IF Truthy(m["url"]) /\ Truthy(m["method"])
    THEN get_url(m["base_url"].v, m["url"].v)
    ELSE NotCalled

\* the body of __init__ for the n-th spec object
AfterMerge(m, appctx, ctx, n) == Validated(m, FullUrl(m), appctx, ctx, n)

HTTPGatewaySpec__init__(kw, mro, appctx, ctx, n) ==
    AfterMerge(Merged(kw, mro), appctx, ctx, n)

\* spec: the call HTTPGatewaySpec(**kwargs) and what it did: how it ended
\* (status), the call it made to the session provider, the adapters it
\* instantiated, the call it made to the gateway class and self._gateway
NoSpec ==
    [status |-> "none", kwargs |-> EmptyBody, provider |-> NoCall, created |-> <<>>,
     ctor |-> NoCall, gateway |-> NoGateway]

-----------------------------------------------------------------------------
(* default.py at call time: the adapters and DefaultHTTPRequestGateway *)

\* default.is_like_get
is_like_get(method) == method.v \in {"GET", "OPTIONS"}

\* a write-like test that leaves PUT out
is_like_postWithoutPut(method) == method.v \in {"POST", "PATCH"}

\* default.is_like_post
is_like_post(method) == method.v \in {"POST", "PUT", "PATCH"}

\* a dict, as the set of its items
Dict(items) == [k |-> "dict", v |-> items]

\* an instance of a model; a field is <<name, value, explicitly set>>
Instance(model, fields) ==
    [k |-> "instance", v |-> [model |-> model, fields |-> fields]]

\* the request payloads: no data, a user, a user whose optional email is
\* None, one whose email was left at its default, one whose email is given
Payloads ==
    LET user == {<<"name", Str(<<"a">>), TRUE>>, <<"id", Num(7), TRUE>>}
    IN  {None,
         Instance("BMUser", user),
         Instance("BMUser", user \cup {<<"email", None, TRUE>>}),
         Instance("BMUser", user \cup {<<"email", Str(<<"a">>), FALSE>>}),
         Instance("BMUser", user \cup {<<"email", Str(<<"a">>), TRUE>>})}

\* the data an adapter built for this model is given
PayloadsOf(model) == IF model = None THEN {None} ELSE Payloads

\* self.adapter.dump_python(data, exclude_none=True, exclude_unset=True)
dump_python(data) ==
    IF data = None THEN None
    ELSE Dict({<<e[1], e[2]>> :
                  e \in {x \in data.v.fields : x[3] /\ x[2] # None}})

NoRequest == [k |-> "no_request", v |-> 0]

NoResponse == [k |-> "no_response", v |-> 0]

\* Request(**kwargs) in DefaultHTTPRequestAdapter.adapt: json is given for a
\* write-like method only and params for a read-like method only
Request(method, url, data, headers) ==
    LET adapted == dump_python(data)
    IN  [method  |-> method.v,
         url     |-> url,
         headers |-> headers,
         json    |-> IF is_like_post(method) THEN adapted ELSE Absent,
         params  |-> IF is_like_get(method) THEN adapted ELSE Absent]

\* HttpSession.prepare_request: the session hands back the prepared request,
\* which holds what the Request holds, or raises
prepare_request(session, request) ==
    {Returned([k |-> "prepared", v |-> request]), Raised("RequestException")}

\* DefaultHTTPRequestAdapter.adapt; method.value is read first, and only a
\* member of HTTPMethod has it
DefaultHTTPRequestAdapter_adapt(session, method, url, data, headers) ==
    IF method.k # "HTTPMethod" THEN {Raised("AttributeError")}
    ELSE prepare_request(session, Request(method, url, data, headers))

\* a response object; id tells two responses apart
Response(id, request, status_code, content) ==
    [k |-> "Response",
     v |-> [id |-> id, request |-> request,
            status_code |-> status_code, content |-> content]]

\* the status codes a server answers with
Statuses == {200, 399, 400, 500}

\* response bodies, as token sequences: none, a JSON null, a truncated
\* document, an empty object, a user without id, a user
Contents ==
    {<<>>, <<"null">>, <<"{">>, <<"{", "}">>, <<"{", "name", "}">>,
     <<"{", "name", "id", "}">>}

\* HttpSession.send: the transport answers with a new response or raises
send(session, request, id) ==
    {Returned(Response(id, request, st, c)) : st \in Statuses, c \in Contents}
        \cup {Raised("ConnectionError")}

\* the status from which raise_for_status raises HTTPError
ErrorStatus == 400

\* HTTPResponse.raise_for_status: TRUE when it raises
raise_for_status(response) == response.v.status_code >= ErrorStatus

\* the content is a JSON object
IsJsonObject(content) ==
    /\ Len(content) >= 2
    /\ content[1] = "{"
    /\ content[Len(content)] = "}"
    /\ \A i \in 2..(Len(content) - 1) : content[i] \notin {"{", "}"}

\* the value the body gives each key
JsonValue(key) == IF key = "id" THEN Num(7) ELSE Str(<<"a">>)

\* the fields a model requires
RequiredFields(model) == {"name", "id"}

\* a decoder that reads a missing body and a JSON null as None
validate_jsonNullable(model, content) ==
    IF content \in {<<>>, <<"null">>} THEN Returned(None)
    ELSE IF ~IsJsonObject(content) THEN Raised("ValidationError")
    ELSE LET keys == {content[i] : i \in 2..(Len(content) - 1)}
         IN  IF ~(RequiredFields(model) \subseteq keys)
             THEN Raised("ValidationError")
             ELSE Returned(Instance(model.v,
                                    {<<key, JsonValue(key), TRUE>> : key \in keys}))

\* TypeAdapter(model).validate_json(content)
validate_json(model, content) ==
    IF ~IsJsonObject(content) THEN Raised("ValidationError")
    ELSE LET keys == {content[i] : i \in 2..(Len(content) - 1)}
         IN  IF ~(RequiredFields(model) \subseteq keys)
             THEN Raised("ValidationError")
             ELSE Returned(Instance(model.v,
                                    {<<key, JsonValue(key), TRUE>> : key \in keys}))

\* an adapt that decodes the body before it looks at the status
DefaultHTTPResponseAdapter_adaptDecodeFirst(adapter, response) ==
    LET decoded == validate_json(adapter.v.attrs, response.v.content)
    IN  IF Truthy(adapter.v.attrs) /\ decoded.status # "returned"
        THEN [out |-> decoded, decoded |-> TRUE]
        ELSE IF raise_for_status(response)
        THEN [out |-> Raised("HTTPError"), decoded |-> Truthy(adapter.v.attrs)]
        ELSE IF Truthy(adapter.v.attrs)
        THEN [out |-> decoded, decoded |-> TRUE]
        ELSE [out |-> Returned(response), decoded |-> FALSE]

\* an adapt that hands back the body when no model is declared
DefaultHTTPResponseAdapter_adaptContent(adapter, response) ==
    IF raise_for_status(response)
    THEN [out |-> Raised("HTTPError"), decoded |-> FALSE]
    ELSE IF Truthy(adapter.v.attrs)
    THEN [out |-> validate_json(adapter.v.attrs, response.v.content),
          decoded |-> TRUE]
    ELSE [out |-> Returned(Str(response.v.content)), decoded |-> FALSE]

\* DefaultHTTPResponseAdapter.adapt: the outcome, and whether the body was
\* handed to the decoder
DefaultHTTPResponseAdapter_adapt(adapter, response) ==
    IF raise_for_status(response)
    THEN [out |-> Raised("HTTPError"), decoded |-> FALSE]
    ELSE IF Truthy(adapter.v.attrs)
    THEN [out |-> validate_json(adapter.v.attrs, response.v.content),
          decoded |-> TRUE]
    ELSE [out |-> Returned(response), decoded |-> FALSE]

\* DefaultHTTPRequestGateway.__init__
DefaultHTTPRequestGateway__init__(session, url, method, headers, request_adapter, response_adapter) ==
    Object("DefaultHTTPRequestGateway", <<0, "gateway">>,
           [session          |-> session,
            url              |-> url,
            method           |-> method,
            request_adapter  |->
                Or(request_adapter,
                   NewRequestAdapter(Type("DefaultHTTPRequestAdapter"), None,
                                     <<0, "request_adapter">>)),
            response_adapter |->
                Or(response_adapter,
                   NewResponseAdapter(Type("DefaultHTTPResponseAdapter"), None,
                                      <<0, "response_adapter">>)),
            headers          |-> headers])

\* a prepare that takes the payload from a slot on the gateway, which holds
\* what the first thread's invocation was given
prepareShared(self, data) ==
    DefaultHTTPRequestAdapter_adapt(self.v.attrs.session, self.v.attrs.method,
                                    self.v.attrs.url, threads[1].data,
                                    self.v.attrs.headers)

\* DefaultHTTPRequestGateway.prepare
prepare(self, data) ==
    DefaultHTTPRequestAdapter_adapt(self.v.attrs.session, self.v.attrs.method,
                                    self.v.attrs.url, data, self.v.attrs.headers)

\* DefaultHTTPRequestGateway.egress
egress(self, request, id) == send(self.v.attrs.session, request, id)

\* DefaultHTTPRequestGateway.ingress
ingress(self, response) ==
    DefaultHTTPResponseAdapter_adapt(self.v.attrs.response_adapter, response)

\* a __call__ that sends the request again when ingress raises
__call__ResendOnError(step, outcome) ==
    IF outcome.status # "returned"
    THEN IF step = "ingress" THEN "egress" ELSE "raised"
    ELSE CASE step = "prepare" -> "egress"
           [] step = "egress"  -> "ingress"
           [] step = "ingress" -> "returned"

\* DefaultHTTPRequestGateway.__call__: what follows a step that ended with
\* this outcome; an exception leaves __call__ at once
__call__(step, outcome) ==
    IF outcome.status # "returned" THEN "raised"
    ELSE CASE step = "prepare" -> "egress"
           [] step = "egress"  -> "ingress"
           [] step = "ingress" -> "returned"

\* no invocation under way
NoInvocation ==
    [pc |-> "idle", data |-> None, request |-> NoRequest,
     response |-> NoResponse, result |-> NotCalled, decoded |-> FALSE,
     log |-> <<>>]

\* no thread has invoked the gateway
NoThreads == [t \in 1..MaxThreads |-> NoInvocation]

-----------------------------------------------------------------------------
(* Declaring spec classes and constructing a spec object *)

\* no owning class yet
NoOwner == [k |-> "no_owner", v |-> 0]

\* no attribute access yet
NoAccess == [n |-> 0, instance |-> None, value |-> None]

\* the app context after an earlier, default-configured spec was resolved
\* in this process
EarlierContext ==
    from_context(Type("DefaultHttpSession"), {}, None, None, <<0, "session">>).context

Init ==
    /\ u_base = <<>>
    /\ u_path = <<>>
    /\ u_out = NotCalled
    /\ root \in Roots
    /\ classes = <<>>
    /\ \/ app_context = "absent" /\ context = {}
       \/ app_context = "mapping" /\ context = EarlierContext
    /\ spec = NoSpec
    /\ gateway = NoGateway
    /\ call = NoInvocation
    /\ n_calls = 0
    /\ n_prepared = 0
    /\ n_sent = 0
    /\ acquired = <<>>
    /\ owner = NoOwner
    /\ access = NoAccess
    /\ n_bound_calls = 0
    /\ threads = NoThreads

\* class X(<last declared class>): <body>.  Classes are declared before the
\* spec objects are constructed: a class statement changes no class that
\* exists, so the order loses no behaviour of a constructed spec.
Declare ==
    /\ spec = NoSpec
    /\ Len(classes) < MaxDepth
    /\ \E body \in Bodies[MaxDefs - SumDefs(classes) + 1] :
           classes' = Append(classes, body)
    /\ UNCHANGED <<url_vars, root, res_vars, call_vars, sess_vars, own_vars, conc_vars>>

\* <last declared class>(**kw), the spec object the run is about
Construct ==
    /\ spec = NoSpec
    /\ \E kw \in Bodies[MaxDefs - SumDefs(classes) + 1] :
           \E m \in {Merged(kw, Mro(root, classes))} :
               \E out \in {AfterMerge(m, app_context, context, 1)} :
                   /\ spec' = [out.spec EXCEPT !.kwargs = kw]
                   /\ context' = out.context
    /\ UNCHANGED <<url_vars, decl_vars, app_context, call_vars, sess_vars, own_vars, conc_vars>>

\* the instances of the owning class
OwnerInstances == {Object("TestClient", <<1, "client">>, None),
                   Object("TestClient", <<2, "client">>, None)}

\* a __get__ that resolves a gateway of its own for the instance
__get__PerInstance(self, instance) ==
    IF instance = None THEN [k |-> "HTTPGatewaySpec", v |-> self]
    ELSE [self.gateway EXCEPT !.v.id = instance.v.id]

\* HTTPGatewaySpec.__get__(self, instance, owner)
__get__(self, instance) ==
    IF instance = None THEN [k |-> "HTTPGatewaySpec", v |-> self]
    ELSE self.gateway

\* class TestClient: test_request = <the spec>; the class statement calls
\* __set_name__, which keeps the attribute name on the spec
Attach ==
    /\ spec.status = "ok"
    /\ owner = NoOwner
    /\ owner' = [k |-> "owner", v |-> [name |-> "test_request", attr |-> spec]]
    /\ UNCHANGED <<url_vars, decl_vars, res_vars, call_vars, sess_vars, access,
                   n_bound_calls, conc_vars>>

\* TestClient.test_request, or client.test_request for an instance
Access ==
    /\ owner # NoOwner
    /\ access.n < MaxAccesses
    /\ \E instance \in {None} \cup OwnerInstances :
           access' = [n        |-> access.n + 1,
                      instance |-> instance,
                      value    |-> __get__(owner.v.attr, instance)]
    /\ UNCHANGED <<url_vars, decl_vars, res_vars, call_vars, sess_vars, owner,
                   n_bound_calls, conc_vars>>

\* client.test_request(params): the bound gateway is invoked; neither the
\* owner nor the spec is an argument of the call
CallBound ==
    /\ access.n > 0
    /\ access.instance # None
    /\ n_bound_calls < MaxCalls
    /\ n_bound_calls' = n_bound_calls + 1
    /\ UNCHANGED <<url_vars, decl_vars, res_vars, call_vars, sess_vars, owner,
                   access, conc_vars>>

Next == Declare \/ Construct \/ Attach \/ Access \/ CallBound

Spec == Init /\ [][Next]_vars

-----------------------------------------------------------------------------
(* The URL resolver on its own: every base and path up to MaxLen *)

UrlInit ==
    /\ u_base \in Strings
    /\ u_path \in Strings
    /\ u_out = NotCalled
    /\ root = "HTTPGatewaySpec"
    /\ classes = <<>>
    /\ app_context = "absent"
    /\ context = {}
    /\ spec = NoSpec
    /\ gateway = NoGateway
    /\ call = NoInvocation
    /\ n_calls = 0
    /\ n_prepared = 0
    /\ n_sent = 0
    /\ acquired = <<>>
    /\ owner = NoOwner
    /\ access = NoAccess
    /\ n_bound_calls = 0
    /\ threads = NoThreads

CallGetUrl ==
    /\ u_out = NotCalled
    /\ u_out' = get_url(u_base, u_path)
    /\ UNCHANGED <<u_base, u_path, decl_vars, res_vars, call_vars, sess_vars, own_vars, conc_vars>>

UrlNext == CallGetUrl

SpecUrl == UrlInit /\ [][UrlNext]_vars

-----------------------------------------------------------------------------
(* Invoking a gateway built by DefaultHTTPRequestGateway(...) itself *)

\* the headers given to the gateway
Headers == Dict({<<"Content-Type", Str(<<"a">>)>>})

CallInit ==
    /\ u_base = <<>>
    /\ u_path = <<>>
    /\ u_out = NotCalled
    /\ root = "HTTPGatewaySpec"
    /\ classes = <<>>
    /\ app_context = "absent"
    /\ context = {}
    /\ spec = NoSpec
    /\ \E url \in {AbsUrl, AbsUrlSlash}, method \in HTTPMethod,
          headers \in {None, Headers},
          request_model \in {None, Type("BMUser")},
          response_model \in {None, Type("BMUser")} :
           gateway = DefaultHTTPRequestGateway__init__(
                         NewSession(Type("DefaultHttpSession"), None,
                                    <<0, "session">>),
                         Str(url), Method(method), headers,
                         IF request_model = None THEN None
                         ELSE NewRequestAdapter(Type("DefaultHTTPRequestAdapter"),
                                                request_model,
                                                <<1, "request_adapter">>),
                         IF response_model = None THEN None
                         ELSE NewResponseAdapter(Type("DefaultHTTPResponseAdapter"),
                                                 response_model,
                                                 <<1, "response_adapter">>))
    /\ call = NoInvocation
    /\ n_calls = 0
    /\ n_prepared = 0
    /\ n_sent = 0
    /\ acquired = <<>>
    /\ owner = NoOwner
    /\ access = NoAccess
    /\ n_bound_calls = 0
    /\ threads = NoThreads

\* gateway(params): __call__ is entered
Invoke ==
    /\ call.pc \in {"idle", "returned", "raised"}
    /\ n_calls < MaxCalls
    /\ \E data \in PayloadsOf(gateway.v.attrs.request_adapter.v.attrs) :
           call' = [NoInvocation EXCEPT !.pc = "prepare", !.data = data]
    /\ n_calls' = n_calls + 1
    /\ UNCHANGED <<url_vars, decl_vars, res_vars, gateway, n_prepared, n_sent, sess_vars, own_vars, conc_vars>>

\* request = self.prepare(params)
Prepare ==
    /\ call.pc = "prepare"
    /\ \E out \in prepare(gateway, call.data) :
           /\ call' = [call EXCEPT
                         !.pc = __call__("prepare", out),
                         !.request = IF out.status = "returned"
                                     THEN out.value ELSE NoRequest,
                         !.result = IF out.status = "returned" THEN @ ELSE out,
                         !.log = Append(@, "prepare")]
           /\ n_prepared' = IF out.status = "returned"
                            THEN n_prepared + 1 ELSE n_prepared
    /\ UNCHANGED <<url_vars, decl_vars, res_vars, gateway, n_calls, n_sent, sess_vars, own_vars, conc_vars>>

\* response = self.egress(request): the one place session.send is called
Egress ==
    /\ call.pc = "egress"
    /\ \E out \in egress(gateway, call.request, n_sent + 1) :
           call' = [call EXCEPT
                      !.pc = __call__("egress", out),
                      !.response = IF out.status = "returned"
                                   THEN out.value ELSE NoResponse,
                      !.result = IF out.status = "returned" THEN @ ELSE out,
                      !.log = @ \o <<"egress", "send">>]
    /\ n_sent' = n_sent + 1
    /\ UNCHANGED <<url_vars, decl_vars, res_vars, gateway, n_calls, n_prepared, sess_vars, own_vars, conc_vars>>

\* return self.ingress(response)
Ingress ==
    /\ call.pc = "ingress"
    /\ \E got \in {ingress(gateway, call.response)} :
           call' = [call EXCEPT
                      !.pc = __call__("ingress", got.out),
                      !.result = got.out,
                      !.decoded = got.decoded,
                      !.log = Append(@, "ingress")]
    /\ UNCHANGED <<url_vars, decl_vars, res_vars, gateway, n_calls, n_prepared,
                   n_sent, sess_vars, own_vars, conc_vars>>

CallNext == Invoke \/ Prepare \/ Egress \/ Ingress

SpecCall == CallInit /\ [][CallNext]_vars

-----------------------------------------------------------------------------
(* Acquiring sessions from one context with from_context *)

\* the session classes that inherit from_context
SessionClasses == {Type("DefaultHttpSession"), Type("DefaultCachedHttpSession")}

\* the read_timeout arguments: not given, zero, five seconds
ReadTimeouts == {None, Num(0), Num(5)}

\* the authorizer arguments
Authorizers == {None, Authorizer("t1"), Authorizer("t2")}

SessionInit ==
    /\ u_base = <<>>
    /\ u_path = <<>>
    /\ u_out = NotCalled
    /\ root = "HTTPGatewaySpec"
    /\ classes = <<>>
    /\ app_context = "mapping"
    /\ context = {}
    /\ spec = NoSpec
    /\ gateway = NoGateway
    /\ call = NoInvocation
    /\ n_calls = 0
    /\ n_prepared = 0
    /\ n_sent = 0
    /\ acquired = <<>>
    /\ owner = NoOwner
    /\ access = NoAccess
    /\ n_bound_calls = 0
    /\ threads = NoThreads

\* cls.from_context(context=context, authorizer=..., read_timeout=...):
\* the key looked up, the session _initialize built for the call and the
\* session the call returned are kept
Acquire ==
    /\ Len(acquired) < MaxAcquisitions
    /\ \E cls \in SessionClasses, read_timeout \in ReadTimeouts,
          authorizer \in Authorizers :
           \E id \in {<<Len(acquired) + 1, "session">>} :
               \E got \in {from_context(cls, context, authorizer, read_timeout, id)} :
                   /\ context' = got.context
                   /\ acquired' =
                          Append(acquired,
                                 [cls          |-> cls,
                                  read_timeout |-> read_timeout,
                                  authorizer   |-> authorizer,
                                  key          |-> _context_key(cls, read_timeout),
                                  built        |-> _initialize(cls, authorizer,
                                                               read_timeout, id),
                                  session      |-> got.value])
    /\ UNCHANGED <<url_vars, decl_vars, app_context, spec, call_vars, own_vars, conc_vars>>

SessionNext == Acquire

SpecSession == SessionInit /\ [][SessionNext]_vars

-----------------------------------------------------------------------------
(* Threads that invoke one gateway at the same time.  A thread switch can  *)
(* fall between any two of prepare, egress and ingress; none of the three  *)
(* assigns an attribute of the gateway.                                    *)

Threads == 1..MaxThreads

ConcInit ==
    /\ u_base = <<>>
    /\ u_path = <<>>
    /\ u_out = NotCalled
    /\ root = "HTTPGatewaySpec"
    /\ classes = <<>>
    /\ app_context = "absent"
    /\ context = {}
    /\ spec = NoSpec
    /\ \E method \in {"GET", "POST"}, headers \in {None, Headers},
          response_model \in {None, Type("BMUser")} :
           gateway = DefaultHTTPRequestGateway__init__(
                         NewSession(Type("DefaultHttpSession"), None,
                                    <<0, "session">>),
                         Str(AbsUrl), Method(method), headers,
                         NewRequestAdapter(Type("DefaultHTTPRequestAdapter"),
                                           Type("BMUser"), <<1, "request_adapter">>),
                         IF response_model = None THEN None
                         ELSE NewResponseAdapter(Type("DefaultHTTPResponseAdapter"),
                                                 response_model,
                                                 <<1, "response_adapter">>))
    /\ call = NoInvocation
    /\ n_calls = 0
    /\ n_prepared = 0
    /\ n_sent = 0
    /\ acquired = <<>>
    /\ owner = NoOwner
    /\ access = NoAccess
    /\ n_bound_calls = 0
    /\ threads = NoThreads

\* thread t calls gateway(params)
ThreadInvoke(t) ==
    /\ threads[t].pc = "idle"
    /\ \E data \in PayloadsOf(gateway.v.attrs.request_adapter.v.attrs) :
           threads' = [threads EXCEPT
                         ![t] = [NoInvocation EXCEPT !.pc = "prepare", !.data = data]]
    /\ n_calls' = n_calls + 1
    /\ UNCHANGED <<url_vars, decl_vars, res_vars, gateway, call, n_prepared, n_sent,
                   sess_vars, own_vars>>

\* thread t: request = self.prepare(params)
ThreadPrepare(t) ==
    /\ threads[t].pc = "prepare"
    /\ \E out \in prepare(gateway, threads[t].data) :
           /\ threads' = [threads EXCEPT
                            ![t].pc = __call__("prepare", out),
                            ![t].request = IF out.status = "returned"
                                           THEN out.value ELSE NoRequest,
                            ![t].result = IF out.status = "returned" THEN @ ELSE out,
                            ![t].log = Append(@, "prepare")]
           /\ n_prepared' = IF out.status = "returned"
                            THEN n_prepared + 1 ELSE n_prepared
    /\ UNCHANGED <<url_vars, decl_vars, res_vars, gateway, call, n_calls, n_sent,
                   sess_vars, own_vars>>

\* thread t: response = self.egress(request)
ThreadEgress(t) ==
    /\ threads[t].pc = "egress"
    /\ \E out \in egress(gateway, threads[t].request, n_sent + 1) :
           threads' = [threads EXCEPT
                         ![t].pc = __call__("egress", out),
                         ![t].response = IF out.status = "returned"
                                         THEN out.value ELSE NoResponse,
                         ![t].result = IF out.status = "returned" THEN @ ELSE out,
                         ![t].log = @ \o <<"egress", "send">>]
    /\ n_sent' = n_sent + 1
    /\ UNCHANGED <<url_vars, decl_vars, res_vars, gateway, call, n_calls, n_prepared,
                   sess_vars, own_vars>>

\* thread t: return self.ingress(response)
ThreadIngress(t) ==
    /\ threads[t].pc = "ingress"
    /\ \E got \in {ingress(gateway, threads[t].response)} :
           threads' = [threads EXCEPT
                         ![t].pc = __call__("ingress", got.out),
                         ![t].result = got.out,
                         ![t].decoded = got.decoded,
                         ![t].log = Append(@, "ingress")]
    /\ UNCHANGED <<url_vars, decl_vars, res_vars, gateway, call, n_calls, n_prepared,
                   n_sent, sess_vars, own_vars>>

ConcNext ==
    \E t \in Threads :
        ThreadInvoke(t) \/ ThreadPrepare(t) \/ ThreadEgress(t) \/ ThreadIngress(t)

SpecConcurrent == ConcInit /\ [][ConcNext]_vars

-----------------------------------------------------------------------------
\* s carries a scheme and a host: urlparse splits it and finds both non-empty
Carries(s) == ~UrlParseRaises(s) /\ HasSchemeAndNetloc(s)

(* C4: get_url(base, path) fails with its configuration error and returns  *)
(* no URL when neither base nor path carries both a scheme and a host, and *)
(* it fails in no other case.                                              *)
UrlFailsIffNeitherAbsolute ==
    u_out # NotCalled =>
        (u_out.status # "returned") <=> (~Carries(u_base) /\ ~Carries(u_path))

(* C5: when path carries a scheme and a host, get_url returns path         *)
(* unchanged whatever base is; otherwise, base carrying them, it returns   *)
(* exactly base followed by path with nothing inserted or removed.         *)
UrlResultIsPathOrConcatenation ==
    u_out # NotCalled =>
        /\ Carries(u_path) => u_out = Returned(u_path)
        /\ (~Carries(u_path) /\ Carries(u_base)) =>
               u_out = Returned(u_base \o u_path)

-----------------------------------------------------------------------------
(* What a resolution is seen to use *)

\* the resolution got as far as calling the gateway class
GatewayCalled == spec.ctor # NoCall

\* a call-time argument is supplied when it is neither None nor empty nor zero
Supplied(f) == Truthy(Arg(spec.kwargs, f))

\* the declaring class and its ancestors below HTTPGatewaySpec, base first
Declarations == <<RootBody(root)>> \o classes

\* the classes among them that write field f
Declaring(f) == {i \in 1..Len(Declarations) : Declarations[i][f] # Absent}

\* the attribute of the most derived class that writes f
DeclaredValue(f) ==
    Declarations[CHOOSE i \in Declaring(f) : \A j \in Declaring(f) : j <= i][f]

\* the system default of each field
SystemDefault(f) ==
    CASE f = "base_url"         -> Str(<<>>)
      [] f = "request_adapter"  -> Type("DefaultHTTPRequestAdapter")
      [] f = "response_adapter" -> Type("DefaultHTTPResponseAdapter")
      [] f = "session"          -> Type("DefaultHttpSession")
      [] f = "gateway"          -> Type("DefaultHTTPRequestGateway")
      [] OTHER                  -> None

\* the precedence chain: call-time argument, declared attribute, default
ByPrecedence(f) ==
    IF Supplied(f) THEN spec.kwargs[f]
    ELSE IF Declaring(f) # {} THEN DeclaredValue(f)
    ELSE SystemDefault(f)

\* the adapter the gateway class is called with, for a reference and a model
AdapterSeenFor(given, ref, model, role) ==
    IF isclass(ref)
    THEN /\ given.k = "object"
         /\ given.v.cls = ref.v
         /\ given.v.id = <<1, role>>
         /\ given.v.attrs = model
    ELSE given = ref

\* the calls the resolution made are those of the configuration cfg
UsesConfig(cfg) ==
    LET ctor == spec.ctor.v
    IN  /\ ctor.cls = cfg["gateway"]
        /\ ctor.args.method = cfg["method"]
        /\ ctor.args.timeout = cfg["timeout"]
        /\ Returned(ctor.args.url) = get_url(cfg["base_url"].v, cfg["url"].v)
        /\ spec.provider.v.cls = cfg["session"]
        /\ spec.provider.v.authorizer = cfg["authorizer"]
        /\ AdapterSeenFor(ctor.args.request_adapter, cfg["request_adapter"],
                          cfg["request_model"], "request_adapter")
        /\ AdapterSeenFor(ctor.args.response_adapter, cfg["response_adapter"],
                          cfg["response_model"], "response_adapter")

-----------------------------------------------------------------------------
(* C1: precedence law.  Every field, independently of the others, is taken *)
(* from the call-time argument when one is supplied, otherwise from the    *)
(* declaring class's attribute, otherwise from the system default: the     *)
(* session provider and the gateway class are called with exactly the      *)
(* values this chain gives.                                                *)
PrecedenceLaw ==
    GatewayCalled => UsesConfig([f \in Fields |-> ByPrecedence(f)])

\* a call-time timeout wins over the class's own, the inherited method and
\* the declared url are used, and the gateway class is the default one
PrecedenceBothLayers ==
    /\ GatewayCalled
    /\ root = "HTTPGatewayGETSpec"
    /\ Len(classes) = 1
    /\ classes[1]["timeout"] = Num(60)
    /\ classes[1]["url"] = Str(AbsUrl)
    /\ spec.kwargs["timeout"] = Num(5)
    /\ spec.ctor.v.args.timeout = Num(5)
    /\ spec.ctor.v.args.method = Method("GET")
    /\ spec.ctor.v.cls = Type("DefaultHTTPRequestGateway")

-----------------------------------------------------------------------------
\* the value of f in the nearest class that defines it, most derived first
NearestAncestor(f) ==
    LET mro == Mro(root, classes)
        has == {i \in 1..Len(mro) : mro[i][f] # Absent}
    IN  IF has = {} THEN None
        ELSE mro[CHOOSE i \in has : \A j \in has : i <= j][f]

(* C2: inheritance law.  A field not supplied at call time is taken from   *)
(* the nearest class of the inheritance chain that defines it, most        *)
(* derived first; a class declared with no attributes of its own resolves  *)
(* to the same url, method, adapters, session, authorizer and gateway type *)
(* as its parent does for the same call.                                   *)
InheritanceLaw ==
    GatewayCalled =>
        /\ UsesConfig([f \in Fields |->
               IF Supplied(f) THEN spec.kwargs[f] ELSE NearestAncestor(f)])
        /\ (classes # <<>> /\ classes[Len(classes)] = EmptyBody) =>
               UsesConfig(Merged(spec.kwargs,
                                 Mro(root, SubSeq(classes, 1, Len(classes) - 1))))

\* a child with no attributes of its own, resolved to its parent's adapter
\* instance, session class and url
InheritedByEmptyChild ==
    /\ GatewayCalled
    /\ Len(classes) = 2
    /\ classes[2] = EmptyBody
    /\ classes[1]["url"] = Str(AbsUrl)
    /\ classes[1]["request_adapter"] = UserRequestAdapter
    /\ classes[1]["session"] = Type("TestHTTPSession")
    /\ root = "HTTPGatewayPOSTSpec"
    /\ spec.kwargs = EmptyBody
    /\ spec.ctor.v.args.method = Method("POST")
    /\ spec.ctor.v.args.request_adapter = UserRequestAdapter
    /\ spec.ctor.v.args.session.cls = "TestHTTPSession"
    /\ spec.ctor.v.args.url = AbsUrl

-----------------------------------------------------------------------------
(* C3: required fields.  When, after merging, url is missing or empty or   *)
(* method is missing, construction fails and no gateway is constructed or  *)
(* bound; url and method are the only fields whose absence makes           *)
(* resolution fail: with an absolute url and a method, and every other     *)
(* field left out everywhere, a gateway is bound.                          *)
OnlyUrlAndMethodRequired ==
    spec.status # "none" =>
        LET cfg == [f \in Fields |-> ByPrecedence(f)]
        IN  /\ (~Truthy(cfg["url"]) \/ ~Truthy(cfg["method"])) =>
                   /\ spec.status = "AssertionError"
                   /\ spec.ctor = NoCall
                   /\ spec.gateway = NoGateway
            /\ ( /\ Truthy(cfg["url"]) /\ HasSchemeAndNetloc(cfg["url"].v)
                 /\ Truthy(cfg["method"])
                 /\ \A f \in Fields \ {"url", "method"} :
                        spec.kwargs[f] = Absent /\ Declaring(f) = {} ) =>
                   /\ spec.status = "ok"
                   /\ spec.gateway # NoGateway

-----------------------------------------------------------------------------
\* the instantiations the resolution made for one adapter role
InstantiationsOf(role) ==
    {i \in 1..Len(spec.created) : spec.created[i].id = <<1, role>>}

\* what is instantiated and what the gateway gets, for one adapter role
AdapterRule(role, model_field) ==
    LET ref   == ByPrecedence(role)
        given == spec.ctor.v.args[role]
    IN  /\ isclass(ref) =>
               /\ Cardinality(InstantiationsOf(role)) = 1
               /\ \A i \in InstantiationsOf(role) :
                      /\ spec.created[i].cls = ref
                      /\ spec.created[i].model = ByPrecedence(model_field)
               /\ given.k = "object"
               /\ given.v.cls = ref.v
               /\ given.v.id = <<1, role>>
        /\ ref.k = "object" =>
               /\ InstantiationsOf(role) = {}
               /\ given = ref
        /\ spec.gateway # NoGateway =>
               spec.gateway.v.attrs[role] = given

(* C6: adapter type versus instance.  For the request and for the response *)
(* adapter: a merged reference that is a class is instantiated exactly     *)
(* once, with the merged model of its side, and the new instance is what   *)
(* the gateway gets; a merged reference that is an instance is handed to   *)
(* the gateway as that very instance, nothing is instantiated and the      *)
(* model is ignored.                                                       *)
AdapterTypeOrInstance ==
    GatewayCalled =>
        /\ AdapterRule("request_adapter", "request_model")
        /\ AdapterRule("response_adapter", "response_model")
        /\ Len(spec.created) <= 2

\* a declared request adapter instance bound to the gateway as it is, and
\* the response adapter class instantiated once
AdapterInstanceBound ==
    /\ spec.status = "ok"
    /\ Len(classes) = 1
    /\ classes[1]["request_adapter"] = UserRequestAdapter
    /\ spec.gateway.v.attrs["request_adapter"] = UserRequestAdapter
    /\ Len(spec.created) = 1
    /\ spec.created[1].cls = Type("DefaultHTTPResponseAdapter")

-----------------------------------------------------------------------------
(* What an invocation is seen to do *)

\* prepare has returned the request of the invocation under way
Prepared == call.request # NoRequest

\* ingress has been given the response of the invocation under way
Ingressed == call.response # NoResponse /\ call.pc \in {"returned", "raised"}

ErrorPrecedence ==
    (Ingressed /\ call.response.v.status_code >= 400) =>
        call.result = Raised("HTTPError") /\ ~call.decoded

\* status 500 with a truncated body and a declared model: HTTPError
ServerErrorUndecodableBody ==
    /\ Ingressed
    /\ call.response.v.status_code = 500
    /\ call.response.v.content = <<"{">>
    /\ gateway.v.attrs.response_adapter.v.attrs = Type("BMUser")
    /\ call.result = Raised("HTTPError")

(* C9: no-model passthrough.  With no response model declared, ingress     *)
(* returns the very response object it was given, for every status below   *)
(* 400 and every body, an absent one included.                             *)
NoModelPassthrough ==
    (/\ Ingressed
     /\ gateway.v.attrs.response_adapter.v.attrs = None
     /\ call.response.v.status_code < 400) =>
        call.pc = "returned" /\ call.result = Returned(call.response)

\* a 200 without a body and no model: the invocation returned the response
BodilessResponseReturned ==
    /\ Ingressed
    /\ gateway.v.attrs.response_adapter.v.attrs = None
    /\ call.response.v.status_code = 200
    /\ call.response.v.content = <<>>
    /\ call.result = Returned(call.response)
    /\ call.result.value.v.id = n_sent

(* C10: invocation ordering.  An invocation runs prepare, then egress,     *)
(* then ingress, and returns ingress(egress(prepare(data))); session.send  *)
(* is called once for every invocation whose prepare returned, after       *)
(* prepare, never when prepare raised, never by prepare or ingress, and    *)
(* never again after an error response.                                    *)
InvocationOrdering ==
    LET steps == <<"prepare", "egress", "send", "ingress">>
        sends == Cardinality({i \in 1..Len(call.log) : call.log[i] = "send"})
    IN  /\ Len(call.log) <= 4
        /\ call.log = SubSeq(steps, 1, Len(call.log))
        /\ sends = IF Prepared /\ call.pc # "egress" THEN 1 ELSE 0
        /\ n_prepared <= n_calls
        /\ n_sent = n_prepared - (IF call.pc = "egress" THEN 1 ELSE 0)
        /\ call.pc = "returned" => Len(call.log) = 4
        /\ Len(call.log) = 4 =>
               /\ Returned(call.request) \in prepare(gateway, call.data)
               /\ Returned(call.response) \in
                      egress(gateway, call.request, call.response.v.id)
               /\ call.result = ingress(gateway, call.response).out

\* the first invocation's prepare raised and nothing was sent; the second
\* was answered with an error status after its one send
OneSendForTwoInvocations ==
    /\ n_calls = 2
    /\ n_prepared = 1
    /\ n_sent = 1
    /\ call.log = <<"prepare", "egress", "send", "ingress">>
    /\ call.result = Raised("HTTPError")

-----------------------------------------------------------------------------
(* C11: session reuse.  After any acquisitions on one context, two of them *)
(* with the same context key and the same read_timeout got the same        *)
(* session instance, and two with different read_timeouts got distinct     *)
(* instances.                                                              *)
SessionReuse ==
    \A i, j \in 1..Len(acquired) :
        /\ ( /\ acquired[i].key = acquired[j].key
             /\ acquired[i].read_timeout = acquired[j].read_timeout ) =>
               acquired[i].session = acquired[j].session
        /\ acquired[i].read_timeout # acquired[j].read_timeout =>
               acquired[i].session # acquired[j].session

\* the second acquisition repeats the first and gets its session; the third
\* differs in read_timeout only and gets another one
SameKeyReusedOtherTimeoutNot ==
    /\ Len(acquired) = 3
    /\ acquired[1].cls = acquired[2].cls
    /\ acquired[1].cls = acquired[3].cls
    /\ acquired[1].read_timeout = Num(5)
    /\ acquired[2].read_timeout = Num(5)
    /\ acquired[3].read_timeout = None
    /\ acquired[2].session = acquired[1].session
    /\ acquired[3].session # acquired[1].session
    /\ acquired[2].session.id = <<1, "session">>

-----------------------------------------------------------------------------
(* C12: declarative attachment.  Reading the attribute a spec is kept in   *)
(* gives, on the owning class, the spec itself and, on any instance of the *)
(* owner, the gateway the spec bound when it was constructed: the same     *)
(* gateway object at every read, whatever the instance and however many    *)
(* invocations went before, the spec being as it was when it was attached. *)
DeclarativeAttachment ==
    /\ owner # NoOwner => owner.v.attr = spec /\ spec.status = "ok"
    /\ access.n > 0 =>
           /\ access.instance = None =>
                  access.value = [k |-> "HTTPGatewaySpec", v |-> spec]
           /\ access.instance # None =>
                  /\ access.value = spec.gateway
                  /\ access.value # NoGateway

\* the second read, on the second instance and after two invocations, gives
\* the gateway the constructor bound
SecondInstanceSameGateway ==
    /\ access.n = 2
    /\ access.instance = Object("TestClient", <<2, "client">>, None)
    /\ n_bound_calls = 2
    /\ access.value = spec.gateway
    /\ access.value.v.cls = "TimeoutHTTPGateway"

-----------------------------------------------------------------------------
\* tenths of a second of the connect timeout DefaultHttpSession sets
ConnectTimeoutTenths == 35

\* a (connect, read) timeout pair
Timeout(read) == [connect |-> ConnectTimeoutTenths, read |-> read]

\* the timeout of the transport request an invocation issues: egress calls
\* session.send(request) and passes no timeout
egress_timeout(self) == None

(* C13: timeout threading.  The timeout resolved for a spec reaches the    *)
(* transport through the gateway the spec binds: the spec binds a gateway  *)
(* of the default gateway class, and an invocation of it issues its        *)
(* transport request with the timeout (3.5, resolved timeout), the read    *)
(* part being None when no timeout is declared.                            *)
TimeoutThreaded ==
    (GatewayCalled /\ spec.ctor.v.cls.v \in DefaultInitGateways) =>
        /\ spec.status = "ok"
        /\ spec.gateway # NoGateway
        /\ egress_timeout(spec.gateway) = Timeout(ByPrecedence("timeout"))

-----------------------------------------------------------------------------
\* an adapter that is an instance, neither a class nor a missing reference
BoundInstance(a) == a.k = "object"

(* C14: gateway configuration invariant.  Whatever the call-time arguments *)
(* and class attributes, the gateway class is called, and a gateway built, *)
(* only with a URL that is non-empty and carries scheme and host, a method *)
(* that is a member of HTTPMethod, and request and response adapters that  *)
(* are instances.                                                          *)
GatewayConfigurationInvariant ==
    GatewayCalled =>
        LET args == spec.ctor.v.args
        IN  /\ args.url # <<>>
            /\ ~UrlParseRaises(args.url)
            /\ HasSchemeAndNetloc(args.url)
            /\ args.method.k = "HTTPMethod"
            /\ args.method.v \in HTTPMethod
            /\ BoundInstance(args.request_adapter)
            /\ BoundInstance(args.response_adapter)
            /\ spec.gateway # NoGateway => spec.gateway.v.attrs = args

-----------------------------------------------------------------------------
\* the errors that report a fault of the configured fields
ConfigurationErrors == {"AssertionError", "ValueError", "AttributeError", "TypeError"}

\* what preparing a request does for a gateway the spec built with the
\* default request adapter: adapt is called with the gateway's session,
\* method and url, and with no headers
PrepareOutcomes(args) ==
    UNION {DefaultHTTPRequestAdapter_adapt(args.session, args.method, Str(args.url),
                                           data, None) :
               data \in PayloadsOf(args.request_adapter.v.attrs)}

(* C15: configuration errors are never deferred.  A missing url or method  *)
(* and an unresolvable base and path are reported by the construction of   *)
(* the spec, and preparing a request with the gateway of a successfully    *)
(* constructed spec never fails with a configuration error.                *)
ConfigurationErrorsNotDeferred ==
    /\ (spec.status # "none" /\ ~Truthy(ByPrecedence("url"))) =>
           spec.status = "AssertionError"
    /\ (spec.status # "none" /\ ~Truthy(ByPrecedence("method"))) =>
           spec.status = "AssertionError"
    /\ ( /\ spec.status # "none"
         /\ Truthy(ByPrecedence("url"))
         /\ Truthy(ByPrecedence("method"))
         /\ get_url(ByPrecedence("base_url").v, ByPrecedence("url").v).status
                # "returned" ) =>
           spec.status = "ValueError"
    /\ ( /\ spec.status = "ok"
         /\ spec.gateway.v.attrs.request_adapter.v.cls = "DefaultHTTPRequestAdapter" ) =>
           \A out \in PrepareOutcomes(spec.gateway.v.attrs) :
               out.status \notin ConfigurationErrors

-----------------------------------------------------------------------------
\* the body is missing, or is no document of the declared model
Undecodable(model, content) ==
    \/ content = <<>>
    \/ ~IsJsonObject(content)
    \/ \E f \in RequiredFields(model) : \A i \in 1..Len(content) : content[i] # f

(* C16: decoding failure is never silent.  With a response model declared, *)
(* a response whose status is below 400 and whose body is missing or is no *)
(* document of the model makes ingress, and so the invocation, fail with   *)
(* ValidationError; the result is never None and never the response.       *)
DecodingFailureNotSilent ==
    (/\ Ingressed
     /\ gateway.v.attrs.response_adapter.v.attrs # None
     /\ call.response.v.status_code < 400) =>
        /\ call.result \notin {Returned(None), Returned(call.response)}
        /\ Undecodable(gateway.v.attrs.response_adapter.v.attrs,
                       call.response.v.content) =>
               /\ call.pc = "raised"
               /\ call.result = Raised("ValidationError")
               /\ call.decoded

\* a 200 without a body and a declared model: ValidationError
BodilessResponseRejected ==
    /\ Ingressed
    /\ gateway.v.attrs.response_adapter.v.attrs = Type("BMUser")
    /\ call.response.v.status_code = 200
    /\ call.response.v.content = <<>>
    /\ call.pc = "raised"
    /\ call.result = Raised("ValidationError")

-----------------------------------------------------------------------------
\* what thread t's invocation has got so far is what the gateway's fields
\* and its own payload and response give
RanAlone(t) ==
    LET c    == threads[t]
        self == gateway.v.attrs
    IN  /\ c.request # NoRequest =>
               Returned(c.request) \in
                   DefaultHTTPRequestAdapter_adapt(self.session, self.method, self.url,
                                                   c.data, self.headers)
        /\ c.response # NoResponse => c.response.v.request = c.request
        /\ (c.response # NoResponse /\ c.pc \in {"returned", "raised"}) =>
               c.result = DefaultHTTPResponseAdapter_adapt(self.response_adapter,
                                                           c.response).out

(* C17: no mutable shared state after construction.  No step of an         *)
(* invocation changes the gateway (its session, url, method, headers and   *)
(* adapters) or the spec, and however the invocations of several threads   *)
(* interleave, the request each prepared and the result each got are those *)
(* of its own payload and its own response.                                *)
NoSharedMutableState ==
    /\ [](\A t \in Threads : RanAlone(t))
    /\ [][gateway' = gateway /\ spec' = spec]_vars

\* two invocations under way at once, with different payloads
TwoInvocationsInFlight ==
    /\ threads[1].pc = "ingress"
    /\ threads[2].pc = "egress"
    /\ threads[1].data # threads[2].data
    /\ threads[1].request # threads[2].request
    /\ RanAlone(1)
    /\ RanAlone(2)

-----------------------------------------------------------------------------
\* an earlier acquisition made with the same provider and configuration
HeldBefore(j) == \E i \in 1..(j - 1) : acquired[i].key = acquired[j].key

(* C18: sessions are not re-created.  Of the acquisitions made with one    *)
(* provider and an equivalent configuration, every one after the first     *)
(* hands back the session the context holds, and constructs no session of  *)
(* its own.                                                                *)
SessionsNotRecreated ==
    \A j \in 1..Len(acquired) :
        HeldBefore(j) =>
            /\ \E i \in 1..(j - 1) : acquired[j].session = acquired[i].session
            /\ acquired[j].built = None

-----------------------------------------------------------------------------
\* the app context as it was before the spec was constructed
ContextBefore == IF app_context = "mapping" THEN EarlierContext ELSE {}

(* C19: validation precedes session acquisition.  When the construction of *)
(* a spec fails because url or method is missing or because base and path  *)
(* cannot be resolved, the session provider was not called, nothing was    *)
(* added to the app context, no adapter was instantiated, the gateway      *)
(* class was not called and the spec holds no gateway.                     *)
ValidationBeforeSession ==
    spec.status \in {"AssertionError", "ValueError"} =>
        /\ spec.provider = NoCall
        /\ context = ContextBefore
        /\ spec.created = <<>>
        /\ spec.ctor = NoCall
        /\ spec.gateway = NoGateway

\* an unresolvable url on a class that names a session class the context
\* holds no session of: the context is as it was
UnresolvableUrlLeavesContext ==
    /\ spec.status = "ValueError"
    /\ app_context = "mapping"
    /\ Len(classes) = 1
    /\ classes[1]["session"] = Type("DefaultCachedHttpSession")
    /\ context = EarlierContext
    /\ spec.provider = NoCall

-----------------------------------------------------------------------------
\* a call-time argument that is given and is None, empty or zero
GivenFalsy(f) == spec.kwargs[f] # Absent /\ ~Truthy(spec.kwargs[f])

\* the class attribute, or the default when no class writes the field
ClassOrDefault(f) == IF Declaring(f) # {} THEN DeclaredValue(f) ELSE SystemDefault(f)

(* C20: falsy call-time values count as not supplied.  A call-time timeout *)
(* of 0, url of "" or base_url of "" does not override: the timeout handed *)
(* to the gateway class, the url that is validated and resolved, and the   *)
(* base it is resolved against, are the class attribute, or the default    *)
(* when no class writes the field.                                         *)
FalsyNotSupplied ==
    /\ (GivenFalsy("timeout") /\ GatewayCalled) =>
           spec.ctor.v.args.timeout = ClassOrDefault("timeout")
    /\ (GivenFalsy("url") /\ spec.status # "none") =>
           IF Truthy(ClassOrDefault("url"))
           THEN GatewayCalled =>
                    Returned(spec.ctor.v.args.url) =
                        get_url(ByPrecedence("base_url").v, ClassOrDefault("url").v)
           ELSE spec.status = "AssertionError"
    /\ (GivenFalsy("base_url") /\ GatewayCalled) =>
           Returned(spec.ctor.v.args.url) =
               get_url(Or(ClassOrDefault("base_url"), Str(<<>>)).v,
                       ByPrecedence("url").v)

\* timeout=0 at call time on a class that declares timeout = 60: the
\* gateway class is called with 60
ZeroTimeoutKeepsClassTimeout ==
    /\ GatewayCalled
    /\ Len(classes) = 1
    /\ classes[1]["timeout"] = Num(60)
    /\ spec.kwargs["timeout"] = Num(0)
    /\ spec.ctor.v.args.timeout = Num(60)

-----------------------------------------------------------------------------
\* acquisition i is the first made with its session class and read_timeout
FirstOfItsKind(i) ==
    \A k \in 1..(i - 1) :
        \/ acquired[k].cls # acquired[i].cls
        \/ acquired[k].read_timeout # acquired[i].read_timeout

\* the credentials authorize leaves on a session: the authorizer's token,
\* or None when no authorizer was given
Credentials(authorizer) == IF authorizer = None THEN None ELSE authorizer.v.attrs

(* C21: the session cache key ignores the authorizer.  An acquisition made *)
(* on a context after another with the same session class and the same     *)
(* read_timeout gets the session that first one cached, whatever the two   *)
(* authorizers are; that session carries the credentials of the first      *)
(* authorizer (none when there was none), and the later authorizer is      *)
(* attached only to the session built for the later call, not to the one   *)
(* returned or cached.                                                     *)
CacheKeyIgnoresAuthorizer ==
    \A i, j \in 1..Len(acquired) :
        ( /\ i < j
          /\ FirstOfItsKind(i)
          /\ acquired[j].cls = acquired[i].cls
          /\ acquired[j].read_timeout = acquired[i].read_timeout ) =>
            /\ acquired[j].key = acquired[i].key
            /\ acquired[j].session = acquired[i].session
            /\ acquired[j].session.id = <<i, "session">>
            /\ acquired[j].session.auth = Credentials(acquired[i].authorizer)
            /\ <<acquired[j].key, acquired[i].session>> \in context
            /\ acquired[j].built.id = <<j, "session">>
            /\ acquired[j].built.auth = Credentials(acquired[j].authorizer)
            /\ \A e \in context : e[2] # acquired[j].built

\* a session cached with token t1, then acquired again with token t2: the
\* second call gets the first session, which still carries t1
SecondTokenGetsFirstSession ==
    /\ Len(acquired) = 2
    /\ acquired[1].cls = acquired[2].cls
    /\ acquired[1].read_timeout = acquired[2].read_timeout
    /\ acquired[1].authorizer = Authorizer("t1")
    /\ acquired[2].authorizer = Authorizer("t2")
    /\ acquired[2].session.id = <<1, "session">>
    /\ acquired[2].session.auth = Str("t1")
    /\ acquired[2].built.auth = Str("t2")

====
